---- MODULE Spec2Model ----
(***************************************************************************)
(* ModalProvider (src/src/modal/ModalHost.tsx): a promise-based modal host *)
(* with the FormModal content (src/unnamed/part_000) and the page that     *)
(* opens it.                                                               *)
(*                                                                         *)
(* One step of the model is one task of the UI event loop: an event        *)
(* handler (or a call of open / of a control) runs to completion against   *)
(* the state of the last render, its state updates are committed by one    *)
(* re-render, and the microtasks it queued run next, before any other      *)
(* task.  Handlers read `pending` and `visualState` of the render that     *)
(* created them (closures); refs are read and written in place.            *)
(***************************************************************************)
EXTENDS Integers, Sequences, FiniteSets, TLC

\* ------------------------------------------------------------------ bounds
MaxRequests == 2     \* open calls in one run
MaxRestore == 2      \* focus restorations counted per request (saturating)

\* --------------------------------------------------------------- elements
\* Things that document.activeElement can be.  A positive number i is the
\* i-th element of the rendered modal content, in document order.
Body == 0            \* nothing focused: document.activeElement is <body>
Trigger == -1        \* the page's "open modal" button
Overlay == -2        \* the overlay div (tabIndex -1)
Container == -3      \* the content div that dialogRef points to
Chrome == -4         \* focus has left the document (browser UI)
Elsewhere == -6      \* an element of another host's layer

Null == "null"       \* the value a cancelled request is fulfilled with
Values == {"v1", "v2"}   \* payloads content passes to resolve
Requests == 1..MaxRequests

\* The ModalProvider instances of the page: host 1 is the one whose state the
\* variables below hold; host 2 is a second instance.
Hosts == {1, 2}
OtherHost == 2

\* An element of modal content, by the attributes handleKeydown looks at.
El(tag, hasTabindex, tabindex, disabled, ariaHidden, hidden) ==
  [tag |-> tag, hasTabindex |-> hasTabindex, tabindex |-> tabindex,
   disabled |-> disabled, ariaHidden |-> ariaHidden, hidden |-> hidden]

Plain(tag) == El(tag, FALSE, 0, FALSE, FALSE, FALSE)

\* The content FormModal renders: the title (tabIndex -1), the close button,
\* the two inputs, the cancel button and the submit button.
FormModal ==
  << El("h2", TRUE, -1, FALSE, FALSE, FALSE),
     Plain("button"), Plain("input"), Plain("input"),
     Plain("button"), Plain("button") >>

\* Content with no tabbable element: a title only.
Notice == << El("h2", TRUE, -1, FALSE, FALSE, FALSE) >>

\* Content that exercises every clause of the tabbable query.
Mixed ==
  << Plain("a[href]"),
     El("div", TRUE, -2, FALSE, FALSE, FALSE),
     El("button", FALSE, 0, TRUE, FALSE, FALSE),
     El("button", FALSE, 0, FALSE, TRUE, FALSE),
     El("input", FALSE, 0, FALSE, FALSE, TRUE),
     El("div", TRUE, 0, FALSE, FALSE, FALSE) >>

\* Content whose first field is a disabled textarea, followed by a button.
Locked == << El("textarea", FALSE, 0, TRUE, FALSE, FALSE), Plain("button") >>

\* The render functions callers pass to open: openFormModal's, and three
\* others for content of other shapes.
FormRenders == {"FormModal"}
Renders == FormRenders \cup {"Notice", "Mixed", "Locked"}

Layout(render) ==
  CASE render = "FormModal" -> FormModal
    [] render = "Notice" -> Notice
    [] render = "Mixed" -> Mixed
    [] render = "Locked" -> Locked
    [] OTHER -> << >>

\* The element the content focuses when it mounts (0: none).  FormModal
\* focuses its title in a mount effect.
InitialFocus(render) ==
  CASE render = "FormModal" -> 1
    [] render = "Notice" -> 1
    [] OTHER -> 0

NativeTags == {"a[href]", "button", "textarea", "input", "select"}

\* querySelectorAll('a[href], button:not([disabled]), textarea,
\*   input:not([disabled]), select, [tabindex]:not([tabindex="-1"])')
MatchesSelector(el) ==
  \/ el.tag \in {"a[href]", "textarea", "select"}
  \/ el.tag \in {"button", "input"} /\ ~el.disabled
  \/ el.hasTabindex /\ el.tabindex # -1

\* The DOM tabIndex property.
TabIndex(el) ==
  IF el.hasTabindex THEN el.tabindex
  ELSE IF el.tag \in NativeTags THEN 0 ELSE -1

\* The filter applied to the query's result.
PassesFilter(el) == ~el.ariaHidden /\ TabIndex(el) # -1 /\ ~el.hidden

IsTabbable(el) == MatchesSelector(el) /\ PassesFilter(el)

\* `tabbables` of handleKeydown: the indices of the content's elements that
\* the query and the filter keep, in document order.
tabbables(layout) ==
  SelectSeq([i \in 1..Len(layout) |-> i], LAMBDA i : IsTabbable(layout[i]))

\* What the browser lets hold focus, and what its Tab key stops at.
Focusable(el) ==
  /\ ~el.hidden
  /\ ~(el.tag \in {"button", "input", "textarea", "select"} /\ el.disabled)
  /\ (el.hasTabindex \/ el.tag \in NativeTags)

TabStop(el) == Focusable(el) /\ TabIndex(el) >= 0

\* ------------------------------------------------------------------ state
VARIABLES
  pending,                   \* useState: the PendingRequest, or NoPending
  isMounted,                 \* useState
  visualState,               \* useState: "open" | "closed" | "unmounted"
  previousActiveElementRef,  \* useRef
  restoreFocusOnCloseRef,    \* useRef
  prefersReducedMotionRef,   \* useRef
  promise,                   \* the promise open returned, per request
  nextId,                    \* the id the next open call gets
  handed,                    \* requests whose controls content has received
  microtasks,                \* queued restorations, oldest first
  activeElement,             \* document.activeElement
  last,                      \* the task that produced this state
  focusBeforeOpen,           \* the latest open call: its request and the
                             \* element that had focus when it was made
  restoreCount,              \* the request restorations last ran for, and
                             \* how many ran for it
  fulfilCount,               \* per request: times its promise was fulfilled
  externalOpenRef,           \* the module's externalOpenRef: the host whose
                             \* open is registered, or NoHost
  mountedHosts,              \* the hosts that are mounted
  other,                     \* the state of host 2 that open writes
  returned                   \* what the last call of open / openWithRender
                             \* returned to its caller

vars ==
  << pending, isMounted, visualState, previousActiveElementRef,
     restoreFocusOnCloseRef, prefersReducedMotionRef, promise, nextId, handed,
     microtasks, activeElement, last, focusBeforeOpen, restoreCount,
     fulfilCount, externalOpenRef, mountedHosts, other, returned >>

\* The variables of the registry and of host 2.
registry == << externalOpenRef, mountedHosts, other >>

\* `null` for the pending state; a PendingRequest is its promise's id and
\* its render function.
NoPending == [id |-> 0, render |-> "none"]

NoElement == -5      \* a null element reference

NoHost == 0          \* externalOpenRef = null

\* What a call returns: a promise (by the id of the request it belongs to),
\* a promise rejected with an error, or nothing because the call threw.
ReturnedPromise(id) == [kind |-> "promise", id |-> id, error |-> "none"]
Rejected(error) == [kind |-> "rejected", id |-> 0, error |-> error]
Thrown(error) == [kind |-> "thrown", id |-> 0, error |-> error]
NoReturn == [kind |-> "none", id |-> 0, error |-> "none"]

\* The state of a host instance that has just mounted.
Fresh ==
  [pending |-> NoPending, isMounted |-> FALSE, visualState |-> "unmounted",
   previousActiveElementRef |-> NoElement]

Unsettled == [settled |-> FALSE, value |-> Null]

\* The resolve function of `new Promise`: the first call fulfils the promise,
\* later calls do nothing.
resolvePromise(c, id, value) ==
  IF c.promise[id].settled THEN c
  ELSE [c EXCEPT !.promise[id] = [settled |-> TRUE, value |-> value],
                 !.fulfilCount[id] = @ + 1]

\* What a task works on: the refs and the document, which it changes in
\* place, and the state updates it enqueues for the next render.
Task ==
  [promise |-> promise, fulfilCount |-> fulfilCount,
   previousActiveElementRef |-> previousActiveElementRef,
   restoreFocusOnCloseRef |-> restoreFocusOnCloseRef,
   activeElement |-> activeElement, microtasks |-> microtasks,
   nextId |-> nextId, returned |-> returned,
   setPending |-> << >>, setIsMounted |-> << >>, setVisualState |-> << >>,
   defaultPrevented |-> FALSE, propagationStopped |-> FALSE]

\* document.activeElement: <body> when nothing in the document has focus.
DocumentActiveElement(c) ==
  IF c.activeElement = Chrome THEN Body ELSE c.activeElement

\* The content in the document under the last render.
Content == IF isMounted THEN Layout(pending.render) ELSE << >>

\* Whether an element reference points into the document.
InDocument(el) ==
  \/ el \in {Body, Trigger}
  \/ isMounted /\ el \in {Overlay, Container}
  \/ isMounted /\ el \in 1..Len(Content)

\* el.focus(): moves focus if el is in the document and can hold focus.
focus(c, el) ==
  IF \/ el = Trigger
     \/ isMounted /\ el = Overlay
     \/ isMounted /\ el \in 1..Len(Content) /\ Focusable(Content[el])
  THEN [c EXCEPT !.activeElement = el]
  ELSE c

\* open: runs the promise executor.
open(c, render) ==
  [c EXCEPT
     !.previousActiveElementRef = DocumentActiveElement(c),
     !.setPending = Append(@, [id |-> c.nextId, render |-> render]),
     !.setIsMounted = Append(@, TRUE),
     !.setVisualState = Append(@, "open"),
     !.nextId = @ + 1,
     !.returned = ReturnedPromise(c.nextId)]

\* setExternalOpen: the new value of externalOpenRef.
setExternalOpen(fn) == fn

\* The registration effect of host h, and its cleanup.
registrationEffect(h) == setExternalOpen(h)

\* The cleanup leaving the registration in place.
registrationCleanupKeepsOpen(ref) == ref

registrationCleanup(ref) == setExternalOpen(NoHost)

HostNotMounted == "ModalProvider is not mounted"

\* openWithRender calling externalOpenRef without looking at it.
openWithRenderUnguarded(c, render) ==
  IF externalOpenRef = NoHost
  THEN [c EXCEPT !.returned = Thrown("externalOpenRef is not a function")]
  ELSE open(c, render)

\* openWithRender; c is the task in the host that externalOpenRef belongs to.
openWithRender(c, render) ==
  IF externalOpenRef = NoHost
  THEN [c EXCEPT !.returned = Rejected(HostNotMounted)]
  ELSE open(c, render)

\* unmountPath with setPending(null) left out.
unmountPathKeepsPending(c, held) ==
  LET c1 == [c EXCEPT !.setIsMounted = Append(@, FALSE),
                      !.setVisualState = Append(@, "unmounted")]
  IN IF c1.restoreFocusOnCloseRef
     THEN [c1 EXCEPT !.microtasks = Append(@, held)]
     ELSE c1

\* The unmount path shared by resolve, cancel and handleOverlayAnimationEnd;
\* `held` is the request the handler's render holds.
unmountPath(c, held) ==
  LET c1 == [c EXCEPT !.setIsMounted = Append(@, FALSE),
                      !.setVisualState = Append(@, "unmounted"),
                      !.setPending = Append(@, NoPending)]
  IN IF c1.restoreFocusOnCloseRef
     THEN [c1 EXCEPT !.microtasks = Append(@, held)]
     ELSE c1

\* resolve fulfilling the promise with null, as cancel does.
resolveDropsValue(c, cap, value) ==
  IF cap = 0 THEN c
  ELSE LET c1 == resolvePromise(c, cap, Null)
           c2 == [c1 EXCEPT !.restoreFocusOnCloseRef = TRUE,
                            !.setVisualState = Append(@, "closed")]
       IN IF prefersReducedMotionRef THEN unmountPath(c2, pending.id) ELSE c2

\* resolve, as created by the render whose pending has id `cap` (0: null).
resolve(c, cap, value) ==
  IF cap = 0 THEN c
  ELSE LET c1 == resolvePromise(c, cap, value)
           c2 == [c1 EXCEPT !.restoreFocusOnCloseRef = TRUE,
                            !.setVisualState = Append(@, "closed")]
       IN IF prefersReducedMotionRef THEN unmountPath(c2, pending.id) ELSE c2

\* cancel closing the layer without fulfilling the promise.
cancelWithoutSettle(c, cap) ==
  IF cap = 0 THEN c
  ELSE LET c2 == [c EXCEPT !.restoreFocusOnCloseRef = TRUE,
                           !.setVisualState = Append(@, "closed")]
       IN IF prefersReducedMotionRef THEN unmountPath(c2, pending.id) ELSE c2

\* cancel, as created by the render whose pending has id `cap` (0: null).
cancel(c, cap) ==
  IF cap = 0 THEN c
  ELSE LET c1 == resolvePromise(c, cap, Null)
           c2 == [c1 EXCEPT !.restoreFocusOnCloseRef = TRUE,
                            !.setVisualState = Append(@, "closed")]
       IN IF prefersReducedMotionRef THEN unmountPath(c2, pending.id) ELSE c2

\* handleKeydown returning early, without preventDefault, when the content
\* has no tabbable element.
handleKeydownNoPin(c, key, shiftKey) ==
  IF key = "Escape" THEN cancel([c EXCEPT !.defaultPrevented = TRUE], pending.id)
  ELSE IF key = "Tab" THEN
    LET t == tabbables(Content)
        active == DocumentActiveElement(c)
    IN IF Len(t) = 0 THEN c
       ELSE IF ~shiftKey /\ active = t[Len(t)]
         THEN focus([c EXCEPT !.defaultPrevented = TRUE], t[1])
       ELSE IF shiftKey /\ (active = t[1] \/ active = Container)
         THEN focus([c EXCEPT !.defaultPrevented = TRUE], t[Len(t)])
       ELSE c
  ELSE c

\* handleKeydown of the last render, for the keys it looks at.
handleKeydown(c, key, shiftKey) ==
  IF key = "Escape" THEN cancel([c EXCEPT !.defaultPrevented = TRUE], pending.id)
  ELSE IF key = "Tab" THEN
    LET t == tabbables(Content)
        active == DocumentActiveElement(c)
    IN IF Len(t) = 0 THEN [c EXCEPT !.defaultPrevented = TRUE]
       ELSE IF ~shiftKey /\ active = t[Len(t)]
         THEN focus([c EXCEPT !.defaultPrevented = TRUE], t[1])
       ELSE IF shiftKey /\ (active = t[1] \/ active = Container)
         THEN focus([c EXCEPT !.defaultPrevented = TRUE], t[Len(t)])
       ELSE c
  ELSE c

\* handleOverlayClick that never cancels.
handleOverlayClickIgnores(c, targetIsCurrentTarget) == c

\* handleOverlayClick: cancels when the click's target is the overlay.
handleOverlayClick(c, targetIsCurrentTarget) ==
  IF targetIsCurrentTarget THEN cancel(c, pending.id) ELSE c

stopPropagation(c) == [c EXCEPT !.propagationStopped = TRUE]

handleOverlayAnimationEnd(c, targetIsCurrentTarget) ==
  IF ~targetIsCurrentTarget THEN c
  ELSE IF visualState = "closed" THEN unmountPath(c, pending.id)
  ELSE c

\* The restoration clearing the flag without moving focus.
restoreFocusSkipsFocus(c) == [c EXCEPT !.restoreFocusOnCloseRef = FALSE]

\* The queued restoration closure.
restoreFocus(c) ==
  LET c1 == IF c.previousActiveElementRef # NoElement
            THEN focus(c, c.previousActiveElementRef) ELSE c
  IN [c1 EXCEPT !.restoreFocusOnCloseRef = FALSE]

\* --------------------------------------------------------------- rendering
LastOr(q, old) == IF q = << >> THEN old ELSE q[Len(q)]

\* The pending / isMounted / visualState of the render that follows a task:
\* each state takes the last value set, and the effect on isOpen then sets
\* isMounted and visualState when isOpen has become true.
Rendered(c) ==
  LET p == LastOr(c.setPending, pending)
      opened == pending.id = 0 /\ p.id # 0
  IN [pending |-> p,
      isMounted |-> IF opened THEN TRUE ELSE LastOr(c.setIsMounted, isMounted),
      visualState |-> IF opened THEN "open"
                      ELSE LastOr(c.setVisualState, visualState)]

\* document.activeElement after the re-render: an element that the render
\* removed loses focus to <body>, and content that mounts focuses its
\* initial element.
FocusAfterRender(c, r) ==
  LET old == IF isMounted THEN pending.render ELSE "none"
      new == IF r.isMounted THEN r.pending.render ELSE "none"
      a == c.activeElement
      kept == IF \/ a > 0 /\ new # old
                 \/ a \in {Overlay, Container} /\ ~r.isMounted
              THEN Body ELSE a
  IN IF new # old /\ InitialFocus(new) # 0 THEN InitialFocus(new) ELSE kept

\* The description of a task, kept in `last`.
Event(op, id, value, flag) ==
  [op |-> op, id |-> id, value |-> value, flag |-> flag, viaClosed |-> FALSE,
   again |-> FALSE]

\* A settlement trigger that reaches resolve or cancel for request `cap`:
\* the request and the value when it is the first to reach the promise, and
\* no more than `again` when the promise was fulfilled before.
Settlement(op, cap, value) ==
  IF cap # 0 /\ promise[cap].settled
  THEN [op |-> op, id |-> 0, value |-> Null, flag |-> TRUE, viaClosed |-> FALSE,
        again |-> TRUE]
  ELSE [op |-> op, id |-> cap, value |-> value, flag |-> TRUE,
        viaClosed |-> FALSE, again |-> FALSE]

\* A task that is no settlement trigger, that changed nothing and that
\* suppressed no default leaves no trace in `last`.
Quiet(c, ev) ==
  /\ ev.op \notin {"resolve", "cancel", "escape"}
  /\ ~c.defaultPrevented
  /\ ~(ev.op = "click" /\ ev.flag)
  /\ Rendered(c) = [pending |-> pending, isMounted |-> isMounted,
                    visualState |-> visualState]
  /\ FocusAfterRender(c, Rendered(c)) = activeElement
  /\ c.promise = promise
  /\ c.previousActiveElementRef = previousActiveElementRef
  /\ c.restoreFocusOnCloseRef = restoreFocusOnCloseRef
  /\ c.microtasks = microtasks
  /\ c.nextId = nextId
  /\ c.returned = returned

\* The end of a task: the refs and the document as the task left them, and
\* the re-render of its state updates.
Commit(c, ev) ==
  LET r == Rendered(c) IN
  /\ pending' = r.pending
  /\ isMounted' = r.isMounted
  /\ visualState' = r.visualState
  /\ handed' = IF r.isMounted /\ r.pending.id # 0
               THEN handed \cup {r.pending.id} ELSE handed
  /\ activeElement' = FocusAfterRender(c, r)
  /\ promise' = c.promise
  /\ fulfilCount' = c.fulfilCount
  /\ previousActiveElementRef' = c.previousActiveElementRef
  /\ restoreFocusOnCloseRef' = c.restoreFocusOnCloseRef
  /\ microtasks' = c.microtasks
  /\ nextId' = c.nextId
  /\ last' = IF Quiet(c, ev) THEN last
              ELSE [ev EXCEPT !.viaClosed =
                      \E i \in 1..Len(c.setVisualState) :
                        /\ c.setVisualState[i] = "closed"
                        /\ \A j \in 1..(i - 1) :
                             c.setVisualState[j] # "unmounted"]
  /\ returned' = c.returned
  /\ UNCHANGED << prefersReducedMotionRef, restoreCount >>
  /\ UNCHANGED registry

\* ---------------------------------------------------------------- browser
\* Document order: the page (with the trigger), then the overlay, the
\* content div and the content's elements.
Pos(e) ==
  IF e > 0 THEN 2 + e
  ELSE IF e = Trigger THEN 1
  ELSE IF e \in {Overlay, Container} THEN 2
  ELSE 0

\* Where the browser's own Tab handling moves focus from `from`: the next
\* (previous, with shift) tab stop in document order, or out of the document.
DefaultTab(from, shiftKey) ==
  LET stops == {Trigger} \cup {i \in 1..Len(Content) : TabStop(Content[i])}
      p == IF from = Chrome
           THEN (IF shiftKey THEN Len(Content) + 3 ELSE 0)
           ELSE Pos(from)
      cands == {s \in stops : IF shiftKey THEN Pos(s) < p ELSE Pos(s) > p}
  IN IF cands = {} THEN Chrome
     ELSE CHOOSE s \in cands :
            \A t \in cands :
              IF shiftKey THEN Pos(t) <= Pos(s) ELSE Pos(t) >= Pos(s)

\* The handlers a keydown reaches: the content div's, then the overlay's,
\* when the focused element is inside the content; the overlay's alone when
\* the overlay itself has focus; none outside the layer.
KeydownHandlers ==
  IF ~isMounted THEN 0
  ELSE IF activeElement > 0 THEN 2
  ELSE IF activeElement = Overlay THEN 1
  ELSE 0

RECURSIVE Keydowns(_, _, _, _)
Keydowns(c, key, shiftKey, n) ==
  IF n = 0 THEN c
  ELSE Keydowns(handleKeydown(c, key, shiftKey), key, shiftKey, n - 1)

\* ----------------------------------------------------------------- actions
Idle == microtasks = << >>

\* A caller calls open (through openWithRender or the context).
Open(render) ==
  /\ Idle
  /\ nextId <= MaxRequests
  /\ Commit(open(Task, render), Event("open", nextId, Null, FALSE))
  /\ focusBeforeOpen' = [id |-> nextId, el |-> DocumentActiveElement(Task)]

\* The task of a call into host h: host 2 has its own previous-focus ref.
HostTask(h) ==
  IF h = OtherHost
  THEN [Task EXCEPT !.previousActiveElementRef = other.previousActiveElementRef]
  ELSE Task

\* The end of a task in host 2: the re-render of its state updates.
OtherCommit(c) ==
  LET p == LastOr(c.setPending, other.pending)
      m == LastOr(c.setIsMounted, other.isMounted)
      old == IF other.isMounted THEN other.pending.render ELSE "none"
      new == IF m THEN p.render ELSE "none"
  IN /\ other' = [pending |-> p, isMounted |-> m,
                  visualState |-> LastOr(c.setVisualState, other.visualState),
                  previousActiveElementRef |-> c.previousActiveElementRef]
     /\ activeElement' =
          IF new # old /\ InitialFocus(new) # 0 THEN Elsewhere
          ELSE IF new # old /\ c.activeElement = Elsewhere THEN Body
          ELSE c.activeElement
     /\ nextId' = c.nextId
     /\ returned' = c.returned
     /\ last' = Event("open", OtherHost, Null, FALSE)
     /\ UNCHANGED << pending, isMounted, visualState, previousActiveElementRef,
                     restoreFocusOnCloseRef, prefersReducedMotionRef, promise,
                     handed, microtasks, focusBeforeOpen, restoreCount,
                     fulfilCount, externalOpenRef, mountedHosts >>

\* A call that reaches the open of a host that has been torn down: the
\* promise is created and returned, the state updates are dropped.
DeadCommit(c) ==
  /\ nextId' = c.nextId
  /\ returned' = c.returned
  /\ last' = Event("open", NoHost, Null, FALSE)
  /\ UNCHANGED << pending, isMounted, visualState, previousActiveElementRef,
                  restoreFocusOnCloseRef, prefersReducedMotionRef, promise,
                  handed, microtasks, activeElement, focusBeforeOpen,
                  restoreCount, fulfilCount, registry >>

\* A caller outside the tree calls openWithRender (openFormModal does).
OpenWithRender(render) ==
  /\ Idle
  /\ externalOpenRef # NoHost => nextId <= MaxRequests
  /\ LET c == openWithRender(HostTask(externalOpenRef), render)
     IN IF externalOpenRef # NoHost /\ externalOpenRef \notin mountedHosts
        THEN DeadCommit(c)
        ELSE IF externalOpenRef = OtherHost
        THEN OtherCommit(c)
        ELSE /\ Commit(c, Event("open", nextId, Null, FALSE))
             /\ focusBeforeOpen' =
                  IF externalOpenRef = NoHost THEN focusBeforeOpen
                  ELSE [id |-> nextId, el |-> DocumentActiveElement(Task)]

\* A ModalProvider instance mounts: its state is fresh and its registration
\* effect runs.
MountHost(h) ==
  /\ Idle
  /\ h \notin mountedHosts
  /\ mountedHosts' = mountedHosts \cup {h}
  /\ externalOpenRef' = registrationEffect(h)
  /\ last' = Event("mount", h, Null, FALSE)
  /\ UNCHANGED << pending, isMounted, visualState, previousActiveElementRef,
                  restoreFocusOnCloseRef, prefersReducedMotionRef, promise,
                  nextId, handed, microtasks, activeElement, focusBeforeOpen,
                  restoreCount, fulfilCount, other, returned >>

\* A ModalProvider instance unmounts: the cleanup of its registration effect
\* runs, its state is gone and its layer leaves the document.
UnmountHost(h) ==
  /\ Idle
  /\ h \in mountedHosts
  /\ mountedHosts' = mountedHosts \ {h}
  /\ externalOpenRef' = registrationCleanup(externalOpenRef)
  /\ last' = Event("unmount", h, Null, FALSE)
  /\ IF h = OtherHost
     THEN /\ other' = Fresh
          /\ activeElement' =
               IF activeElement = Elsewhere THEN Body ELSE activeElement
          /\ UNCHANGED << pending, isMounted, visualState,
                          previousActiveElementRef, restoreFocusOnCloseRef >>
     ELSE /\ pending' = Fresh.pending
          /\ isMounted' = Fresh.isMounted
          /\ visualState' = Fresh.visualState
          /\ previousActiveElementRef' = Fresh.previousActiveElementRef
          /\ restoreFocusOnCloseRef' = FALSE
          /\ activeElement' =
               IF activeElement > 0 \/ activeElement \in {Overlay, Container}
               THEN Body ELSE activeElement
          /\ UNCHANGED other
  /\ UNCHANGED << prefersReducedMotionRef, promise, nextId, handed, microtasks,
                  focusBeforeOpen, restoreCount, fulfilCount, returned >>

\* Content calls the resolve control it got from the render that held `cap`.
Resolve(cap, value) ==
  /\ Idle
  /\ Commit(resolve(Task, cap, value),
            Settlement("resolve", cap, value))
  /\ UNCHANGED focusBeforeOpen

\* Content calls the cancel control it got from the render that held `cap`.
Cancel(cap) ==
  /\ Idle
  /\ Commit(cancel(Task, cap),
            Settlement("cancel", cap, Null))
  /\ UNCHANGED focusBeforeOpen

\* An Escape keydown on the focused element, inside the layer.
Escape ==
  /\ Idle
  /\ KeydownHandlers > 0
  /\ Commit(Keydowns(Task, "Escape", FALSE, KeydownHandlers),
            Settlement("escape", pending.id, Null))
  /\ UNCHANGED focusBeforeOpen

\* A Tab or Shift+Tab keydown on the focused element; the browser moves
\* focus itself unless a handler prevented it.
Tab(shiftKey) ==
  /\ Idle
  /\ LET c == Keydowns(Task, "Tab", shiftKey, KeydownHandlers)
         c1 == IF c.defaultPrevented THEN c
               ELSE [c EXCEPT !.activeElement =
                                 DefaultTab(c.activeElement, shiftKey)]
     IN Commit(c1, Event("tab", pending.id, Null, FALSE))
  /\ UNCHANGED focusBeforeOpen

\* A click on the overlay itself, or on the content (where the content
\* div's stopPropagation runs first).  The click focuses the overlay, the
\* nearest ancestor that can hold focus.
Click(onOverlay) ==
  /\ Idle
  /\ isMounted
  /\ LET c0 == [Task EXCEPT !.activeElement = Overlay]
         c1 == IF onOverlay THEN c0 ELSE stopPropagation(c0)
         c2 == IF c1.propagationStopped THEN c1
               ELSE handleOverlayClick(c1, onOverlay)
     IN Commit(c2, IF onOverlay THEN Settlement("click", pending.id, Null)
                   ELSE Event("click", pending.id, Null, FALSE))
  /\ UNCHANGED focusBeforeOpen

\* The user puts focus on an element of the content with the pointer.
Focus(i) ==
  /\ Idle
  /\ isMounted
  /\ i \in 1..Len(Content)
  /\ Focusable(Content[i])
  /\ Commit(focus(Task, i), Event("focus", pending.id, Null, FALSE))
  /\ UNCHANGED focusBeforeOpen

\* An animationend event reaches the overlay's handler, from the overlay
\* itself or bubbled from a descendant.
AnimationEnd(onOverlay) ==
  /\ Idle
  /\ isMounted
  /\ Commit(handleOverlayAnimationEnd(Task, onOverlay),
            Event("animationEnd", pending.id, Null, FALSE))
  /\ UNCHANGED focusBeforeOpen

\* The media query's change listener.
ReducedMotionChange(matches) ==
  /\ Idle
  /\ prefersReducedMotionRef # matches
  /\ prefersReducedMotionRef' = matches
  /\ last' = Event("motion", pending.id, Null, FALSE)
  /\ UNCHANGED << pending, isMounted, visualState, previousActiveElementRef,
                  restoreFocusOnCloseRef, promise, nextId, handed, microtasks,
                  activeElement, focusBeforeOpen, restoreCount, fulfilCount,
                  returned >>
  /\ UNCHANGED registry

\* The oldest queued restoration runs.
Restore ==
  /\ microtasks # << >>
  /\ LET tag == Head(microtasks)
         c == restoreFocus(Task)
     IN /\ activeElement' = c.activeElement
        /\ restoreFocusOnCloseRef' = c.restoreFocusOnCloseRef
        /\ microtasks' = Tail(microtasks)
        /\ restoreCount' =
             [id |-> tag,
              count |-> IF restoreCount.id # tag THEN 1
                        ELSE IF restoreCount.count < MaxRestore
                        THEN restoreCount.count + 1 ELSE restoreCount.count]
        /\ last' = Event("restore", tag, Null, FALSE)
  /\ UNCHANGED << pending, isMounted, visualState, previousActiveElementRef,
                  prefersReducedMotionRef, promise, nextId, handed,
                  focusBeforeOpen, fulfilCount, returned >>
  /\ UNCHANGED registry

Init ==
  /\ pending = NoPending
  /\ isMounted = FALSE
  /\ visualState = "unmounted"
  /\ previousActiveElementRef = NoElement
  /\ restoreFocusOnCloseRef = FALSE
  /\ prefersReducedMotionRef \in BOOLEAN
  /\ promise = [r \in Requests |-> Unsettled]
  /\ nextId = 1
  /\ handed = {}
  /\ microtasks = << >>
  /\ activeElement \in {Body, Trigger}
  /\ last = Event("init", 0, Null, FALSE)
  /\ focusBeforeOpen = [id |-> 0, el |-> NoElement]
  /\ restoreCount = [id |-> 0, count |-> 0]
  /\ fulfilCount = [r \in Requests |-> 0]
  /\ externalOpenRef = 1
  /\ mountedHosts = {1}
  /\ other = Fresh
  /\ returned = NoReturn

Next ==
  \/ \E render \in FormRenders : Open(render)
  \/ \E cap \in handed, value \in Values : Resolve(cap, value)
  \/ \E cap \in handed : Cancel(cap)
  \/ Escape
  \/ \E shiftKey \in BOOLEAN : Tab(shiftKey)
  \/ \E onOverlay \in BOOLEAN : Click(onOverlay)
  \/ \E onOverlay \in BOOLEAN : AnimationEnd(onOverlay)
  \/ \E matches \in BOOLEAN : ReducedMotionChange(matches)
  \/ Restore

Spec == Init /\ [][Next]_vars

\* The page before any host has mounted.
RegistryInit ==
  /\ pending = Fresh.pending
  /\ isMounted = Fresh.isMounted
  /\ visualState = Fresh.visualState
  /\ previousActiveElementRef = Fresh.previousActiveElementRef
  /\ restoreFocusOnCloseRef = FALSE
  /\ prefersReducedMotionRef \in BOOLEAN
  /\ promise = [r \in Requests |-> Unsettled]
  /\ nextId = 1
  /\ handed = {}
  /\ microtasks = << >>
  /\ activeElement \in {Body, Trigger}
  /\ last = Event("init", 0, Null, FALSE)
  /\ focusBeforeOpen = [id |-> 0, el |-> NoElement]
  /\ restoreCount = [id |-> 0, count |-> 0]
  /\ fulfilCount = [r \in Requests |-> 0]
  /\ externalOpenRef = NoHost
  /\ mountedHosts = {}
  /\ other = Fresh
  /\ returned = NoReturn

\* Hosts mounting and unmounting, and callers of openWithRender.
RegistryNext ==
  \/ \E h \in Hosts : MountHost(h)
  \/ \E h \in Hosts : UnmountHost(h)
  \/ \E render \in FormRenders : OpenWithRender(render)

RegistrySpec == RegistryInit /\ [][RegistryNext]_vars

\* Content of any shape, driven by the keyboard and the pointer only (no
\* control is called by the content): the specification of the focus trap.
TrapNext ==
  \/ \E render \in Renders : Open(render)
  \/ Escape
  \/ \E shiftKey \in BOOLEAN : Tab(shiftKey)
  \/ \E onOverlay \in BOOLEAN : Click(onOverlay)
  \/ \E i \in 1..6 : Focus(i)
  \/ \E onOverlay \in BOOLEAN : AnimationEnd(onOverlay)
  \/ \E matches \in BOOLEAN : ReducedMotionChange(matches)
  \/ Restore

TrapSpec == Init /\ [][TrapNext]_vars

\* ------------------------------------------------------------------ claims
Range(q) == {q[i] : i \in 1..Len(q)}

Fulfilled(value) == [settled |-> TRUE, value |-> value]

\* The state a render shows, as one value.
Lifecycle == << pending, isMounted, visualState >>

\* A cancellation trigger reaches the cancel of the last render.
CancelTrigger == Cancel(pending.id) \/ Escape \/ Click(TRUE)

\* A settlement trigger reaches the resolve or cancel of the last render.
SettleTrigger == CancelTrigger \/ \E value \in Values : Resolve(pending.id, value)

\* C1: resolve(v) on the held, unsettled request fulfils its promise with
\* exactly v, and a promise once fulfilled keeps its value and is never
\* fulfilled again, whatever is fired later.
C1_ResolveOnce ==
  [][ /\ \A value \in Values :
           (pending.id # 0 /\ ~promise[pending.id].settled
              /\ Resolve(pending.id, value))
           => /\ promise'[pending.id] = Fulfilled(value)
              /\ fulfilCount'[pending.id] = 1
      /\ \A r \in Requests :
           promise[r].settled
           => promise'[r] = promise[r] /\ fulfilCount'[r] = fulfilCount[r]
    ]_vars

\* resolve("v1") fulfilled request 1, a later cancel trigger reached the same
\* promise, and the promise still holds "v1", fulfilled once.
C1_Witness ==
  /\ nextId = 2
  /\ last.again /\ last.op \in {"cancel", "escape", "click"}
  /\ promise[1] = Fulfilled("v1")
  /\ fulfilCount[1] = 1

\* C2: each cancellation trigger (cancel(), Escape, a click on the overlay
\* itself) fired on the held, unsettled request fulfils its promise with
\* null; fired when the promise is already fulfilled it fulfils nothing.
C2_CancelNull ==
  [][ CancelTrigger /\ pending.id # 0
      => IF promise[pending.id].settled
         THEN promise' = promise /\ fulfilCount' = fulfilCount
         ELSE /\ promise'[pending.id] = Fulfilled(Null)
              /\ fulfilCount'[pending.id] = 1
    ]_vars

\* Escape fulfilled request 1 with null and was fired a second time.
C2_Witness ==
  /\ nextId = 2
  /\ last.op = "escape" /\ last.again
  /\ promise[1] = Fulfilled(Null)
  /\ fulfilCount[1] = 1

\* C3: while a dialog with at least one tabbable element is open, a Tab or
\* Shift+Tab keydown from an element of the content leaves focus on one of
\* the content's tabbable elements.
C3_FocusTrap ==
  [][ \A shiftKey \in BOOLEAN :
        (/\ visualState = "open" /\ isMounted
         /\ activeElement \in 1..Len(Content)
         /\ tabbables(Content) # << >>
         /\ Tab(shiftKey))
        => activeElement' \in Range(tabbables(Content))
    ]_vars

\* C4: when the restoration queued by the unmount of a settled request has
\* run, the layer is unmounted and focus is on the element that had focus
\* when that request was opened, if that element is still in the document.
C4_FocusRestored ==
  (/\ last.op = "restore" /\ last.id # 0
   /\ promise[last.id].settled
   /\ focusBeforeOpen.id = last.id
   /\ focusBeforeOpen.el # Body /\ InDocument(focusBeforeOpen.el))
  => /\ activeElement = focusBeforeOpen.el
     /\ visualState = "unmounted" /\ ~isMounted

\* Request 1 was opened from the trigger, settled and unmounted, and its
\* restoration put focus back on the trigger.
C4_Witness ==
  /\ last.op = "restore" /\ last.id = 1
  /\ promise[1].settled
  /\ focusBeforeOpen = [id |-> 1, el |-> Trigger]
  /\ activeElement = Trigger
  /\ visualState = "unmounted"

\* C5: with reduced motion preferred, the trigger that settles the held
\* request also unmounts: the render that follows has visualState unmounted,
\* no layer and no pending request.
C5_ReducedMotionUnmounts ==
  [][ (/\ prefersReducedMotionRef
       /\ pending.id # 0 /\ ~promise[pending.id].settled
       /\ SettleTrigger)
      => /\ promise'[pending.id].settled
         /\ visualState' = "unmounted" /\ ~isMounted' /\ pending' = NoPending
    ]_vars

\* A trigger has just settled a request under reduced motion: the layer is
\* gone while the restoration it queued has not run yet.
C5_Witness ==
  /\ prefersReducedMotionRef
  /\ last.flag /\ ~last.again /\ last.id # 0 /\ last.viaClosed
  /\ promise[last.id].settled
  /\ visualState = "unmounted" /\ ~isMounted /\ pending = NoPending
  /\ microtasks # << >>

\* C6: a settlement without reduced motion leaves the layer mounted in
\* "closed"; from "closed" only an animationend whose target is the overlay
\* unmounts; an animationend from a descendant, or one received while open,
\* changes nothing.
C6_UnmountOnlyOnAnimationEnd ==
  [][ /\ (/\ ~prefersReducedMotionRef
          /\ pending.id # 0 /\ ~promise[pending.id].settled
          /\ SettleTrigger)
         => visualState' = "closed" /\ isMounted' /\ pending' = pending
      /\ (visualState = "closed" /\ visualState' = "unmounted")
         => AnimationEnd(TRUE)
      /\ (AnimationEnd(FALSE) \/ (visualState = "open" /\ AnimationEnd(TRUE)))
         => /\ Lifecycle' = Lifecycle
            /\ promise' = promise /\ microtasks' = microtasks
            /\ restoreFocusOnCloseRef' = restoreFocusOnCloseRef
    ]_vars

\* C7: visualState changes only by unmounted -> open, open -> closed and
\* closed -> unmounted (open -> unmounted in one render only when the
\* handler set "closed" on the way).
C7_LifecyclePath ==
  [][ visualState' # visualState
      => \/ << visualState, visualState' >> \in
              { << "unmounted", "open" >>, << "open", "closed" >>,
                << "closed", "unmounted" >> }
         \/ /\ << visualState, visualState' >> = << "open", "unmounted" >>
            /\ last'.viaClosed
    ]_vars

\* C8: the layer is mounted iff visualState is not unmounted, and a request
\* is held iff visualState is not unmounted.
C8_LifecycleAgrees ==
  /\ isMounted <=> visualState # "unmounted"
  /\ pending.id # 0 <=> visualState # "unmounted"

\* Restorations for request r: those that ran and those queued to run.
Restorations(r) ==
  (IF restoreCount.id = r THEN restoreCount.count ELSE 0)
  + Cardinality({i \in 1..Len(microtasks) : microtasks[i] = r})

\* C9: for a request, focus restoration runs at most once, and only after
\* the request's promise has been fulfilled.
C9_RestoreOnce ==
  \A r \in Requests :
    /\ Restorations(r) <= 1
    /\ Restorations(r) > 0 => promise[r].settled

\* C10: a request is cleared by the unmount path only after its promise has
\* been fulfilled; the handler that unmounts queues the restoration and does
\* not run it; the restoration runs after the unmount.
C10_SettleUnmountRestore ==
  [][ /\ (pending.id # 0 /\ pending' = NoPending)
         => /\ promise'[pending.id].settled
            /\ restoreCount' = restoreCount
            /\ Len(microtasks') > Len(microtasks)
      /\ (Restore /\ Head(microtasks) # 0)
         => /\ promise[Head(microtasks)].settled
            /\ visualState = "unmounted" /\ pending = NoPending
    ]_vars

\* The state of host 1, the state of host 2 and the registry, as one value.
HostsAndRegistry ==
  << pending, isMounted, visualState, previousActiveElementRef,
     restoreFocusOnCloseRef, promise, activeElement, microtasks, other,
     externalOpenRef, mountedHosts >>

\* The request held by host h.
HeldBy(h) == IF h = OtherHost THEN other.pending ELSE pending

\* C11: openWithRender called while no capability is registered returns a
\* promise rejected with the host-not-mounted error (it does not throw) and
\* changes neither the registry nor any host's state; called while a
\* capability is registered it returns the promise that the registered host's
\* open created for the given render function.
C11_OpenWithRender ==
  [][ \A render \in FormRenders :
        OpenWithRender(render)
        => IF externalOpenRef = NoHost
           THEN /\ returned' = Rejected(HostNotMounted)
                /\ HostsAndRegistry' = HostsAndRegistry
                /\ nextId' = nextId
           ELSE /\ returned' = ReturnedPromise(nextId)
                /\ HeldBy(externalOpenRef)' = [id |-> nextId, render |-> render]
                /\ nextId' = nextId + 1
    ]_vars

\* openWithRender has returned the promise of request 1, and a later call,
\* made after the registration was cleared, was rejected.
C11_Witness ==
  /\ nextId = 2
  /\ externalOpenRef = NoHost
  /\ returned = Rejected(HostNotMounted)

\* C12: a mount registers the mounting host's open, an unmount clears the
\* registration, and so the registered capability is absent or belongs to a
\* mounted host, also with two hosts mounted at once; openWithRender never
\* calls into a host that has been torn down.
C12_RegistryScoped ==
  [][ /\ \A h \in Hosts : MountHost(h) => externalOpenRef' = h
      /\ \A h \in Hosts : UnmountHost(h) => externalOpenRef' = NoHost
      /\ externalOpenRef' = NoHost \/ externalOpenRef' \in mountedHosts'
      /\ \A render \in FormRenders :
           OpenWithRender(render)
           => externalOpenRef = NoHost \/ externalOpenRef \in mountedHosts
    ]_vars

\* Both hosts were mounted at once, host 2 last; host 1 has unmounted since
\* and host 2 is still mounted.
C12_Witness ==
  /\ last.op = "unmount" /\ last.id = 1
  /\ mountedHosts = {OtherHost}
  /\ externalOpenRef = NoHost

\* C13: open called while the held request is unsettled and shown replaces
\* it: the host then holds the new request alone, with its render function
\* and the element focused at the new call as the saved previous focus,
\* visualState is open and the layer mounted, and no promise is fulfilled by
\* the call; while an earlier request is left unsettled behind the held one,
\* every fulfilment is that of the held request's promise.
C13_SecondOpenWins ==
  [][ /\ \A render \in Renders :
           (/\ pending.id # 0 /\ ~promise[pending.id].settled
            /\ visualState = "open"
            /\ Open(render))
           => /\ pending' = [id |-> nextId, render |-> render]
              /\ previousActiveElementRef' = DocumentActiveElement(Task)
              /\ visualState' = "open" /\ isMounted'
              /\ promise' = promise
      /\ (/\ pending.id # 0
          /\ \E r \in Requests : r < pending.id /\ ~promise[r].settled)
         => \A r \in Requests : promise'[r] # promise[r] => r = pending.id
    ]_vars

\* A settlement trigger fired for a request that was settled before: a
\* control of that request, called while the request is still held (closing)
\* or after it was cleared, or Escape or an overlay click while it is held.
LateTrigger ==
  \/ \E cap \in handed :
       /\ promise[cap].settled
       /\ pending.id \in {cap, 0}
       /\ Cancel(cap) \/ \E value \in Values : Resolve(cap, value)
  \/ /\ pending.id # 0 /\ promise[pending.id].settled
     /\ Escape \/ Click(TRUE)

\* C14: a settlement trigger fired after the request was settled, while the
\* layer is closing or after the request was cleared, changes nothing: not
\* the promise, visualState, isMounted, pending, nor the restoration that is
\* owed or queued, whatever the reduced-motion preference is.
C14_LateSettleNoOp ==
  [][ LateTrigger
      => /\ promise' = promise
         /\ Lifecycle' = Lifecycle
         /\ restoreFocusOnCloseRef' = restoreFocusOnCloseRef
         /\ microtasks' = microtasks
    ]_vars

WrapsAsStated(a, shiftKey, n) ==
  LET t == tabbables(Content)
      d == Keydowns([Task EXCEPT !.activeElement = a], "Tab", shiftKey, n)
  IN IF ~shiftKey /\ a = t[Len(t)]
     THEN d.activeElement = t[1] /\ d.defaultPrevented
     ELSE IF shiftKey /\ a \in {t[1], Container}
     THEN d.activeElement = t[Len(t)] /\ d.defaultPrevented
     ELSE d.activeElement = a /\ ~d.defaultPrevented

IncludedAsStated(el) ==
  /\ el.tag \in NativeTags \/ el.hasTabindex
  /\ ~el.disabled
  /\ ~el.hidden /\ ~el.ariaHidden
  /\ TabIndex(el) >= 0

\* C19: the list computed on a Tab keydown holds exactly the content's
\* elements that the stated exclusion rule keeps, in document order; every
\* element with a negative tab order and every disabled control is left out.
C19_TabbableSet ==
  isMounted
  => LET t == tabbables(Content)
     IN /\ \A i \in 1..Len(Content) :
             i \in Range(t) <=> IncludedAsStated(Content[i])
        /\ \A j \in 1..(Len(t) - 1) : t[j] < t[j + 1]

\* C18: open sets the saved previous-focus reference to the element focused
\* at the call; the restoration clears the reference, and changes nothing but
\* focus and the owed flag.
C18_PreviousFocusConsumed ==
  [][ /\ \A render \in Renders :
           Open(render)
           => previousActiveElementRef' = DocumentActiveElement(Task)
      /\ Restore
         => /\ previousActiveElementRef' = NoElement
            /\ Lifecycle' = Lifecycle
            /\ promise' = promise
    ]_vars

\* C20: whenever visualState is "closed" the request the host holds has
\* been settled, so the unmount that an animationend on the overlay runs
\* from "closed" never clears a request whose promise is unfulfilled.
C20_ClosedHeldSettled ==
  [][ /\ (visualState' = "closed" /\ pending'.id # 0)
         => promise'[pending'.id].settled
      /\ (AnimationEnd(TRUE) /\ pending.id # 0 /\ pending' = NoPending)
         => promise[pending.id].settled
    ]_vars

====
